---- MODULE Spec2Model ----
(***************************************************************************)
(* Chunk streaming of crafting_game: the visibility resolvers              *)
(* (chunk.rs load_deload_chunks, world.rs manage_loaded_chunks), the       *)
(* asynchronous load and save tasks, the poll step that applies finished   *)
(* loads, the RON codec of ChunkData and the chunk geometry.               *)
(*                                                                         *)
(* World coordinates are modelled as integers.  The program keeps them as  *)
(* f32 and casts with `as i32` (truncation toward zero) before dividing;   *)
(* since trunc(trunc(x)/256) = trunc(x/256), integer positions produce     *)
(* every index set a fractional position can produce.                      *)
(***************************************************************************)
EXTENDS Integers, Sequences, FiniteSets, TLC

(* ------------------------------------------------------------------ *)
(* Program constants                                                    *)
(* ------------------------------------------------------------------ *)
TILES_PER_CHUNK == 8
TILE_LENGTH == 32
ViewDistance == 20

(* enum Ground { Dirt, Grass, Stone, Water }: the discriminants *)
Dirt == 0
Grass == 1
Stone == 2
Water == 3
Ground == {Dirt, Grass, Stone, Water}

(* ------------------------------------------------------------------ *)
(* Bounds of the model                                                  *)
(* ------------------------------------------------------------------ *)
MaxEntities == 2     \* Chunk entities, ComputeTask entities and save tasks alive at once
MaxCodecTiles == 2   \* tiles of a ChunkData handed to the codec on its own
MaxPendingLoads == 2    \* ComputeTask entities a tick of SpecSettle may leave alive
MaxSavesInFlight == 3   \* save tasks a tick of SpecSettle may leave in flight

(* The connected clients: two are enough for view borders that overlap *)
PlayerIds == {1, 2}

NoPlayer == <<>>
NoFile == [exists |-> FALSE, bytes |-> <<>>]
FileOf(bytes) == [exists |-> TRUE, bytes |-> bytes]

(* PlayerBundle::new: Transform::from_xyz(0.0, 0.0, 1.0) *)
SpawnPosition == <<0, 0>>

(* Positions a resolution tick observes a player at.  A player spawns at   *)
(* SpawnPosition and moves 0.5 units per MoveEvent; the model lets any      *)
(* number of moves happen between two ticks, so a player can turn up at     *)
(* any of these.  Their view borders cover <<0,0>> alone and <<-1,0>>      *)
(* alone.                                                                   *)
Positions == {<<100, 100>>, <<-100, 100>>}

(* Coordinates of the player positions the resolver is probed at *)
GeomCoords == {-700, -600, -321, -320, -256, -100, -1, 0, 100, 255, 300, 320, 600}

(* ------------------------------------------------------------------ *)
(* Vec helpers                                                          *)
(* ------------------------------------------------------------------ *)
SeqToSet(s) == {s[k] : k \in 1..Len(s)}

RECURSIVE Concat(_)
Concat(ss) == IF ss = <<>> THEN <<>> ELSE Head(ss) \o Concat(Tail(ss))

(* Vec::swap_remove: the last element takes the place of the removed one *)
SwapRemove(v, pos) ==
    IF pos = Len(v) THEN SubSeq(v, 1, Len(v) - 1)
    ELSE [k \in 1..(Len(v) - 1) |-> IF k = pos THEN v[Len(v)] ELSE v[k]]

(* Iterator::position: index of the first match, 0 for None *)
Position(v, x) ==
    IF \E k \in 1..Len(v) : v[k] = x
    THEN CHOOSE k \in 1..Len(v) : v[k] = x /\ \A j \in 1..(k - 1) : v[j] # x
    ELSE 0

RemoveAt(v, pos) == SubSeq(v, 1, pos - 1) \o SubSeq(v, pos + 1, Len(v))

(* ------------------------------------------------------------------ *)
(* Geometry                                                             *)
(* ------------------------------------------------------------------ *)
(* Rust integer division: truncation toward zero *)
TruncDiv(a, b) == IF a >= 0 THEN a \div b ELSE -((-a) \div b)

(* a rectangle that starts at the given point instead of being centred *)
RectFromCornerSize(center, size) ==
    [min |-> <<center[1], center[2]>>,
     max |-> <<center[1] + size, center[2] + size>>]

(* Rect::from_center_size(center, size): size is the full extent *)
RectFromCenterSize(center, size) ==
    [min |-> <<center[1] - size \div 2, center[2] - size \div 2>>,
     max |-> <<center[1] + size \div 2, center[2] + size \div 2>>]

ViewBorder(pos) == RectFromCenterSize(pos, ViewDistance * TILE_LENGTH)

UnitsPerChunk == TILES_PER_CHUNK * TILE_LENGTH

(* a..=b, the upper bound included *)
RangeInclusive(a, b) == [k \in 1..(IF b >= a THEN b - a + 1 ELSE 0) |-> a + k - 1]

(* a..b of Rust (b exclusive) as a sequence *)
Range(a, b) == [k \in 1..(IF b > a THEN b - a ELSE 0) |-> a + k - 1]

chunk_indices_inside(rect) ==
    LET xs == Range(TruncDiv(rect.min[1], UnitsPerChunk), TruncDiv(rect.max[1], UnitsPerChunk))
        ys == Range(TruncDiv(rect.min[2], UnitsPerChunk), TruncDiv(rect.max[2], UnitsPerChunk))
    IN  [k \in 1..(Len(xs) * Len(ys)) |->
            <<xs[((k - 1) \div Len(ys)) + 1], ys[((k - 1) % Len(ys)) + 1]>>]

(* Chunk::get_world_coords and Chunk::get_size *)
get_world_coords(index) ==
    <<index[1] * TILES_PER_CHUNK * TILE_LENGTH, index[2] * TILES_PER_CHUNK * TILE_LENGTH>>
get_size == TILES_PER_CHUNK * TILE_LENGTH

(* Every chunk index some player position of the model can make visible *)
Indices == UNION {SeqToSet(chunk_indices_inside(ViewBorder(p))) : p \in Positions}

(* The order in which the model walks the entity queries: by index, then   *)
(* by spawn order among the entities of one index.                         *)
IndexLess(a, b) == a[1] < b[1] \/ (a[1] = b[1] /\ a[2] < b[2])
RECURSIVE SortIndices(_)
SortIndices(S) ==
    IF S = {} THEN <<>>
    ELSE LET m == CHOOSE a \in S : \A b \in S \ {a} : IndexLess(a, b)
         IN  <<m>> \o SortIndices(S \ {m})
IndexOrder == SortIndices(Indices)

(* ------------------------------------------------------------------ *)
(* ChunkData and its RON codec                                          *)
(* ------------------------------------------------------------------ *)
GroundName(g) == <<"Dirt", "Grass", "Stone", "Water">>[g + 1]
GroundNames == {GroundName(g) : g \in Ground}
ParseGround(name) == CHOOSE g \in Ground : GroundName(g) = name

(* a generator whose loops include TILES_PER_CHUNK itself *)
gen_chunk_inclusive(index) ==
    [chunk_index |-> index,
     tiles |-> [k \in 1..((TILES_PER_CHUNK + 1) * (TILES_PER_CHUNK + 1)) |->
                  [tile_index |-> <<(k - 1) \div (TILES_PER_CHUNK + 1),
                                    (k - 1) % (TILES_PER_CHUNK + 1)>>,
                   ground |-> Grass]]]

(* gen_chunk: x outer, y inner, every tile Grass *)
gen_chunk(index) ==
    [chunk_index |-> index,
     tiles |-> [k \in 1..(TILES_PER_CHUNK * TILES_PER_CHUNK) |->
                  [tile_index |-> <<(k - 1) \div TILES_PER_CHUNK, (k - 1) % TILES_PER_CHUNK>>,
                   ground |-> Grass]]]

(* world.rs spawn_chunk_stub builds the default tiles itself *)
world_default_chunk(chunk_index) ==
    [chunk_index |-> chunk_index,
     tiles |-> [k \in 1..(TILES_PER_CHUNK * TILES_PER_CHUNK) |->
                  [tile_index |-> <<(k - 1) \div TILES_PER_CHUNK, (k - 1) % TILES_PER_CHUNK>>,
                   ground |-> Grass]]]

(* ron::to_string(&ChunkData): the document as a sequence of items, the    *)
(* header, one item per tile with the variant written by name, the close.  *)
ron_to_string(cd) ==
    <<<<"chunk_index", cd.chunk_index[1], cd.chunk_index[2]>>>>
    \o [k \in 1..Len(cd.tiles) |->
          <<"tile", cd.tiles[k].tile_index[1], cd.tiles[k].tile_index[2],
            GroundName(cd.tiles[k].ground)>>]
    \o <<<<"end">>>>

(* ron::de::from_bytes::<ChunkData>: Ok exactly for a complete document *)
WellFormed(bytes) ==
    /\ Len(bytes) >= 2
    /\ Len(bytes[1]) = 3 /\ bytes[1][1] = "chunk_index"
    /\ bytes[Len(bytes)] = <<"end">>
    /\ \A k \in 2..(Len(bytes) - 1) :
          /\ Len(bytes[k]) = 4 /\ bytes[k][1] = "tile"
          /\ bytes[k][2] >= 0 /\ bytes[k][3] >= 0
          /\ bytes[k][4] \in GroundNames

(* ron_from_bytes reading the two coordinates of a tile in the wrong order *)
ron_from_bytes_swapped(bytes) ==
    IF WellFormed(bytes)
    THEN [ok |-> TRUE,
          data |-> [chunk_index |-> <<bytes[1][2], bytes[1][3]>>,
                    tiles |-> [k \in 1..(Len(bytes) - 2) |->
                                 [tile_index |-> <<bytes[k + 1][3], bytes[k + 1][2]>>,
                                  ground |-> ParseGround(bytes[k + 1][4])]]]]
    ELSE [ok |-> FALSE, data |-> [chunk_index |-> <<0, 0>>, tiles |-> <<>>]]

ron_from_bytes(bytes) ==
    IF WellFormed(bytes)
    THEN [ok |-> TRUE,
          data |-> [chunk_index |-> <<bytes[1][2], bytes[1][3]>>,
                    tiles |-> [k \in 1..(Len(bytes) - 2) |->
                                 [tile_index |-> <<bytes[k + 1][2], bytes[k + 1][3]>>,
                                  ground |-> ParseGround(bytes[k + 1][4])]]]]
    ELSE [ok |-> FALSE, data |-> [chunk_index |-> <<0, 0>>, tiles |-> <<>>]]

(* ------------------------------------------------------------------ *)
(* State                                                                *)
(* ------------------------------------------------------------------ *)
VARIABLES
    players,    \* player id -> Transform.translation.xy, or NoPlayer
    chunks,     \* chunk_index -> the tile lists of the Chunk entities carrying it
    tasks,      \* chunk_index -> the ComputeTask entities spawned for it
    saves,      \* chunk_index -> the detached save_chunk tasks for it
    files,      \* chunk_index -> content of world/{x}_{y}.ron, or NoFile
    panic,      \* message of the panic that ended the app, "" while it runs
    lastTick,   \* what the latest step did, if it was a resolution tick
    probe       \* input and output of a function applied on its own

vars == <<players, chunks, tasks, saves, files, panic, lastTick, probe>>

(* The tiles clicks are aimed at: chunk index and position in its child    *)
(* list                                                                    *)
ClickTargets == {<<<<0, 0>>, 1>>}

(* Contents world/ may hold when the server starts *)
CorruptBytes == <<<<"chunk_index", 0, 0>>, <<"tile", 0, 0, "Lava">>, <<"end">>>>
StoredIndices == {<<0, 0>>}
InitialFiles(i) ==
    IF i \in StoredIndices
    THEN {NoFile, FileOf(CorruptBytes)}
    ELSE {NoFile}

(* Entities of one kind alive in the world *)
RECURSIVE SumLen(_, _)
SumLen(f, S) ==
    IF S = {} THEN 0
    ELSE LET i == CHOOSE j \in S : TRUE IN Len(f[i]) + SumLen(f, S \ {i})
TotalLen(f) == SumLen(f, DOMAIN f)

(* The record of a step that was no resolution tick *)
NoTick == [ran |-> FALSE, cmds |-> <<>>]

NoProbe == [stage |-> "none", pos |-> <<0, 0>>, resolved |-> {},
            rect |-> [min |-> <<0, 0>>, max |-> <<0, 0>>],
            data |-> [chunk_index |-> <<0, 0>>, tiles |-> <<>>], bytes |-> <<>>,
            decoded |-> [ok |-> FALSE, data |-> [chunk_index |-> <<0, 0>>, tiles |-> <<>>]]]

Init ==
    /\ probe = NoProbe
    /\ players = [p \in PlayerIds |-> NoPlayer]
    /\ chunks = [i \in Indices |-> <<>>]
    /\ tasks = [i \in Indices |-> <<>>]
    /\ saves = [i \in Indices |-> <<>>]
    /\ files \in [Indices -> UNION {InitialFiles(i) : i \in Indices}]
    /\ \A i \in Indices : files[i] \in InitialFiles(i)
    /\ panic = ""
    /\ lastTick = NoTick

(* ------------------------------------------------------------------ *)
(* Players: handle_connections and the MoveEvent prediction             *)
(* ------------------------------------------------------------------ *)
(* handle_connections spawns the PlayerBundle at SpawnPosition; pos is     *)
(* where its moves have taken it when a tick first observes it            *)
ClientConnected(p, pos) ==
    /\ panic = ""
    /\ players[p] = NoPlayer
    /\ players' = [players EXCEPT ![p] = pos]
    /\ lastTick' = NoTick
    /\ UNCHANGED <<probe, chunks, tasks, saves, files, panic>>

ClientDisconnected(p) ==
    /\ panic = ""
    /\ players[p] # NoPlayer
    /\ players' = [players EXCEPT ![p] = NoPlayer]
    /\ lastTick' = NoTick
    /\ UNCHANGED <<probe, chunks, tasks, saves, files, panic>>

(* Transform::apply_event, any number of events between two ticks *)
MovePlayer(p, pos) ==
    /\ panic = ""
    /\ players[p] # NoPlayer
    /\ players[p] # pos
    /\ players' = [players EXCEPT ![p] = pos]
    /\ lastTick' = NoTick
    /\ UNCHANGED <<probe, chunks, tasks, saves, files, panic>>

(* player_query.iter(): the translations of the connected players *)
RECURSIVE PlayerList(_, _)
PlayerList(pl, p) ==
    IF p \notin PlayerIds THEN <<>>
    ELSE (IF pl[p] = NoPlayer THEN <<>> ELSE <<pl[p]>>) \o PlayerList(pl, p + 1)

(* ------------------------------------------------------------------ *)
(* Commands and their application at the sync point                     *)
(* ------------------------------------------------------------------ *)
(* The world the deferred commands of one system are applied to.  gone     *)
(* counts the Chunk entities of an index this flush has despawned, log is  *)
(* the list of commands applied.                                           *)
World == [chunks |-> chunks, tasks |-> tasks, saves |-> saves,
          gone |-> [i \in Indices |-> 0], panic |-> "", log |-> <<>>]

Cmd(op, index, copy) == [op |-> op, index |-> index, copy |-> copy]
Logged(c) == [op |-> c.op, index |-> c.index]

(* chunks_q: Query<(&Chunk, &Children)> matches the Chunk entities that    *)
(* have at least one child                                                 *)
WithChildren(copies) == {c \in 1..Len(copies) : copies[c] # <<>>}

(* an extraction that leaves the chunk index of the data at the origin *)
extract_chunk_data_at_origin(index, ch) ==
    LET found == WithChildren(ch[index])
    IN  IF found = {} THEN [ok |-> FALSE, data |-> [chunk_index |-> <<0, 0>>, tiles |-> <<>>]]
        ELSE LET first == CHOOSE c \in found : \A d \in found : c <= d
             IN  [ok |-> TRUE, data |-> [chunk_index |-> <<0, 0>>, tiles |-> ch[index][first]]]

(* extract_chunk_data: the first matching entity of the query, no entity   *)
(* is the panic of expect("Chunk to save does not exist!")                 *)
extract_chunk_data(index, ch) ==
    LET found == WithChildren(ch[index])
    IN  IF found = {} THEN [ok |-> FALSE, data |-> [chunk_index |-> index, tiles |-> <<>>]]
        ELSE LET first == CHOOSE c \in found : \A d \in found : c <= d
             IN  [ok |-> TRUE, data |-> [chunk_index |-> index, tiles |-> ch[index][first]]]

(* save_chunk_observer: snapshot, then a detached save_chunk task *)
save_chunk_observer(w, c) ==
    LET x == extract_chunk_data(c.index, w.chunks)
    IN  IF ~x.ok THEN [w EXCEPT !.panic = "Chunk to save does not exist!"]
        ELSE [w EXCEPT !.saves[c.index] = Append(@, [data |-> x.data, pc |-> "start"]),
                       !.log = Append(@, Logged(c))]

(* a despawn that is put off: the entity stays *)
despawn_chunk_put_off(w, c) ==
    [w EXCEPT !.log = Append(@, Logged(c))]

(* commands.entity(entity).despawn_recursive() of a Chunk entity *)
despawn_chunk(w, c) ==
    [w EXCEPT !.chunks[c.index] = RemoveAt(@, c.copy - w.gone[c.index]),
              !.gone[c.index] = @ + 1,
              !.log = Append(@, Logged(c))]

(* load_chunk_observer: a load_chunk task on the IoTaskPool and its        *)
(* ComputeTask entity                                                      *)
NoData == [chunk_index |-> <<0, 0>>, tiles |-> <<>>]
load_chunk_observer(w, c) ==
    [w EXCEPT !.tasks[c.index] = Append(@, [status |-> "running", data |-> NoData]),
              !.log = Append(@, Logged(c))]

(* chunk.rs spawn_chunk_stub: one Chunk entity with the index of the data  *)
(* and one child per tile                                                  *)
spawn_chunk_stub(ch, chunk_data) ==
    [ch EXCEPT ![chunk_data.chunk_index] = Append(@, chunk_data.tiles)]

ApplyCommand(w, c) ==
    CASE c.op = "SaveChunk" -> save_chunk_observer(w, c)
      [] c.op = "despawn" -> despawn_chunk(w, c)
      [] c.op = "LoadChunk" -> load_chunk_observer(w, c)
      [] c.op = "gen_chunk" ->
            [w EXCEPT !.chunks = spawn_chunk_stub(@, gen_chunk(c.index)),
                      !.log = Append(@, Logged(c))]
      [] c.op = "world_stub" ->
            [w EXCEPT !.chunks = spawn_chunk_stub(@, world_default_chunk(c.index)),
                      !.log = Append(@, Logged(c))]

RECURSIVE ApplyCommands(_, _)
ApplyCommands(w, cmds) ==
    IF cmds = <<>> \/ w.panic # "" THEN w
    ELSE ApplyCommands(ApplyCommand(w, Head(cmds)), Tail(cmds))

(* ------------------------------------------------------------------ *)
(* chunk.rs: load_deload_chunks                                         *)
(* ------------------------------------------------------------------ *)
(* chunk_query.iter(): the Chunk entities in the model's walking order *)
EntityList(ch) ==
    Concat([n \in 1..Len(IndexOrder) |->
              [c \in 1..Len(ch[IndexOrder[n]]) |-> [index |-> IndexOrder[n], copy |-> c]]])

(* flat_map over the players of chunk_indices_inside(view_border) *)
VisibleChunkIndices(pl) ==
    Concat([k \in 1..Len(pl) |-> chunk_indices_inside(ViewBorder(pl[k]))])

(* the first loop: drop spawned chunks from the list, save and despawn    *)
(* the chunks the list does not hold                                      *)
RECURSIVE deload_loop(_, _, _)
deload_loop(ents, visible, cmds) ==
    IF ents = <<>> THEN [visible |-> visible, cmds |-> cmds]
    ELSE LET e == Head(ents)
             pos == Position(visible, e.index)
         IN  IF pos # 0
             THEN deload_loop(Tail(ents), SwapRemove(visible, pos), cmds)
             ELSE deload_loop(Tail(ents), visible,
                              cmds \o <<Cmd("SaveChunk", e.index, e.copy),
                                        Cmd("despawn", e.index, e.copy)>>)

(* spawn_loop without the test for the save file *)
spawn_loop_generate_only(visible, fl, generate) ==
    [k \in 1..Len(visible) |-> Cmd(generate, visible[k], 0)]

(* the second loop: load when the save file exists, generate otherwise *)
spawn_loop(visible, fl, generate) ==
    [k \in 1..Len(visible) |->
        IF fl[visible[k]].exists THEN Cmd("LoadChunk", visible[k], 0)
        ELSE Cmd(generate, visible[k], 0)]

(* load_deload_chunks with its two loops in the other order *)
load_deload_chunks_spawn_first(pl, ch, fl) ==
    LET visible == VisibleChunkIndices(pl)
        r == deload_loop(EntityList(ch), visible, <<>>)
    IN  [visible |-> visible, cmds |-> spawn_loop(r.visible, fl, "gen_chunk") \o r.cmds]

load_deload_chunks(pl, ch, fl) ==
    LET visible == VisibleChunkIndices(pl)
        r == deload_loop(EntityList(ch), visible, <<>>)
    IN  [visible |-> visible, cmds |-> r.cmds \o spawn_loop(r.visible, fl, "gen_chunk")]

(* The cap of the model on what a resolution tick may leave alive *)
WithinBounds(w) ==
    TotalLen(w.chunks) + TotalLen(w.tasks) + TotalLen(w.saves) <= MaxEntities

Resident(ch) == {i \in Indices : ch[i] # <<>>}
Pending(tk) == {i \in Indices : tk[i] # <<>>}

TickRecord(w) == [ran |-> TRUE, cmds |-> w.log]

(* a resolution tick that also despawns the ComputeTask entities of the    *)
(* indices no player sees                                                  *)
LoadDeloadChunksCancelling ==
    /\ panic = ""
    /\ LET r == load_deload_chunks(PlayerList(players, 1), chunks, files)
           w == ApplyCommands(World, r.cmds)
       IN  /\ WithinBounds(w)
           /\ chunks' = w.chunks
           /\ tasks' = [i \in Indices |->
                           IF i \in SeqToSet(r.visible) THEN w.tasks[i] ELSE <<>>]
           /\ saves' = w.saves
           /\ panic' = w.panic
           /\ lastTick' = TickRecord(w)
    /\ UNCHANGED <<probe, players, files>>

(* a resolution tick that issues nothing while some load task is running *)
LoadDeloadChunksWaiting ==
    /\ panic = ""
    /\ LET r == load_deload_chunks(PlayerList(players, 1), chunks, files)
           stuck == \E i \in Indices : \E k \in 1..Len(tasks[i]) : tasks[i][k].status = "running"
           w == ApplyCommands(World, IF stuck THEN <<>> ELSE r.cmds)
       IN  /\ WithinBounds(w)
           /\ chunks' = w.chunks
           /\ tasks' = w.tasks
           /\ saves' = w.saves
           /\ panic' = w.panic
           /\ lastTick' = TickRecord(w)
    /\ UNCHANGED <<probe, players, files>>

LoadDeloadChunks ==
    /\ panic = ""
    /\ LET r == load_deload_chunks(PlayerList(players, 1), chunks, files)
           w == ApplyCommands(World, r.cmds)
       IN  /\ WithinBounds(w)
           /\ chunks' = w.chunks
           /\ tasks' = w.tasks
           /\ saves' = w.saves
           /\ panic' = w.panic
           /\ lastTick' = TickRecord(w)
    /\ UNCHANGED <<probe, players, files>>

(* ------------------------------------------------------------------ *)
(* world.rs: manage_loaded_chunks                                       *)
(* ------------------------------------------------------------------ *)
Contains(v, x) == \E k \in 1..Len(v) : v[k] = x

(* the loop over chunk_query *)
RECURSIVE manage_chunk_loop(_, _, _)
manage_chunk_loop(ents, allowed, cmds) ==
    IF ents = <<>> THEN [allowed |-> allowed, cmds |-> cmds, panic |-> ""]
    ELSE LET e == Head(ents)
         IN  IF ~Contains(allowed, e.index)
             THEN manage_chunk_loop(Tail(ents), allowed,
                                    cmds \o <<Cmd("SaveChunk", e.index, e.copy),
                                              Cmd("despawn", e.index, e.copy)>>)
             ELSE LET pos == Position(allowed, e.index)
                  IN  IF pos = 0
                      THEN [allowed |-> allowed, cmds |-> cmds,
                            panic |-> "Couldn't find chunk in allowed indices!"]
                      ELSE manage_chunk_loop(Tail(ents), SwapRemove(allowed, pos), cmds)

(* loading_tasks_query.iter(): the ComputeTask entities *)
TaskList(tk) ==
    Concat([n \in 1..Len(IndexOrder) |->
              [k \in 1..Len(tk[IndexOrder[n]]) |-> [index |-> IndexOrder[n], task |-> k]]])

(* a loop over loading_tasks_query that removes nothing from the list *)
manage_task_loop_skipping(tl, allowed) == allowed

(* the loop over loading_tasks_query *)
RECURSIVE manage_task_loop(_, _)
manage_task_loop(tl, allowed) ==
    IF tl = <<>> THEN allowed
    ELSE LET pos == Position(allowed, Head(tl).index)
         IN  IF pos = 0 THEN manage_task_loop(Tail(tl), allowed)
             ELSE manage_task_loop(Tail(tl), SwapRemove(allowed, pos))

manage_loaded_chunks(pl, ch, tk, fl) ==
    LET allowed == VisibleChunkIndices(pl)
        r == manage_chunk_loop(EntityList(ch), allowed, <<>>)
        rest == manage_task_loop(TaskList(tk), r.allowed)
    IN  [visible |-> allowed, panic |-> r.panic,
         cmds |-> IF r.panic # "" THEN <<>>
                  ELSE r.cmds \o spawn_loop(rest, fl, "world_stub")]

ManageLoadedChunks ==
    /\ panic = ""
    /\ LET r == manage_loaded_chunks(PlayerList(players, 1), chunks, tasks, files)
           w == ApplyCommands(World, r.cmds)
       IN  /\ WithinBounds(w)
           /\ chunks' = w.chunks
           /\ tasks' = w.tasks
           /\ saves' = w.saves
           /\ panic' = IF r.panic # "" THEN r.panic ELSE w.panic
           /\ lastTick' = TickRecord(w)
    /\ UNCHANGED <<probe, players, files>>

(* ------------------------------------------------------------------ *)
(* The load task and task_poll                                          *)
(* ------------------------------------------------------------------ *)
(* load_chunk: open and read the file, then deserialise; io_error is an   *)
(* open or read that fails                                                *)
load_chunk(index, fl, io_error) ==
    IF ~fl[index].exists \/ io_error THEN [ok |-> FALSE, data |-> NoData]
    ELSE ron_from_bytes(fl[index].bytes)

(* a load task that spawns the decoded chunk into the world itself *)
LoadChunkRunsAndSpawns(i, k, io_error) ==
    /\ panic = ""
    /\ k \in 1..Len(tasks[i])
    /\ tasks[i][k].status = "running"
    /\ LET r == load_chunk(i, files, io_error)
       IN  /\ tasks' = [tasks EXCEPT ![i][k] =
                           [status |-> IF r.ok THEN "ok" ELSE "err", data |-> r.data]]
           /\ chunks' = IF r.ok THEN spawn_chunk_stub(chunks, r.data) ELSE chunks
    /\ lastTick' = NoTick
    /\ UNCHANGED <<probe, players, saves, files, panic>>

LoadChunkRuns(i, k, io_error) ==
    /\ panic = ""
    /\ k \in 1..Len(tasks[i])
    /\ tasks[i][k].status = "running"
    /\ LET r == load_chunk(i, files, io_error)
       IN  tasks' = [tasks EXCEPT ![i][k] =
                        [status |-> IF r.ok THEN "ok" ELSE "err", data |-> r.data]]
    /\ lastTick' = NoTick
    /\ UNCHANGED <<probe, players, chunks, saves, files, panic>>

(* the task runs to its end with the file system answering *)
LoadChunkTask(i, k) == LoadChunkRuns(i, k, FALSE)
(* the task runs to its end with File::open or read_to_end failing *)
LoadChunkIoError(i, k) == LoadChunkRuns(i, k, TRUE)

(* a poll that drops the command queues of the finished tasks *)
poll_loop_dropping(tl, tk, ch) == ch

(* the command queues of the finished tasks, appended in query order *)
RECURSIVE poll_loop(_, _, _)
poll_loop(tl, tk, ch) ==
    IF tl = <<>> THEN ch
    ELSE LET t == tk[Head(tl).index][Head(tl).task]
         IN  IF t.status = "ok" THEN poll_loop(Tail(tl), tk, spawn_chunk_stub(ch, t.data))
             ELSE poll_loop(Tail(tl), tk, ch)

IsRunning(t) == t.status = "running"

task_poll(tk, ch) ==
    [chunks |-> poll_loop(TaskList(tk), tk, ch),
     tasks |-> [i \in Indices |-> SelectSeq(tk[i], IsRunning)]]

TaskPoll ==
    /\ panic = ""
    /\ \E i \in Indices : \E k \in 1..Len(tasks[i]) : ~IsRunning(tasks[i][k])
    /\ LET r == task_poll(tasks, chunks)
       IN  /\ chunks' = r.chunks
           /\ tasks' = r.tasks
    /\ lastTick' = NoTick
    /\ UNCHANGED <<probe, players, saves, files, panic>>

(* ------------------------------------------------------------------ *)
(* The save task                                                        *)
(* ------------------------------------------------------------------ *)
(* save_chunk up to File::create, which creates the file or truncates it *)
SaveCreate(i, k) ==
    /\ panic = ""
    /\ k \in 1..Len(saves[i])
    /\ saves[i][k].pc = "start"
    /\ files' = [files EXCEPT ![i] = FileOf(<<>>)]
    /\ saves' = [saves EXCEPT ![i][k].pc = "created"]
    /\ lastTick' = NoTick
    /\ UNCHANGED <<probe, players, chunks, tasks, panic>>

(* File::create fails: the error is logged and the task ends *)
SaveCreateFails(i, k) ==
    /\ panic = ""
    /\ k \in 1..Len(saves[i])
    /\ saves[i][k].pc = "start"
    /\ saves' = [saves EXCEPT ![i] = RemoveAt(@, k)]
    /\ lastTick' = NoTick
    /\ UNCHANGED <<probe, players, chunks, tasks, files, panic>>

(* Write::write at offset 0 of the handle: the first n items of the       *)
(* document replace the first n of the file                               *)
WriteAt0(old, doc, n) == SubSeq(doc, 1, n) \o SubSeq(old, n + 1, Len(old))

(* path.write(serialized.as_bytes()) and the end of the task *)
SaveWrite(i, k) ==
    /\ panic = ""
    /\ k \in 1..Len(saves[i])
    /\ saves[i][k].pc = "created"
    /\ LET doc == ron_to_string(saves[i][k].data)
       IN  files' = [files EXCEPT ![i] = FileOf(WriteAt0(@.bytes, doc, Len(doc)))]
    /\ saves' = [saves EXCEPT ![i] = RemoveAt(@, k)]
    /\ lastTick' = NoTick
    /\ UNCHANGED <<probe, players, chunks, tasks, panic>>

(* a failed write after which the task starts over *)
SaveWriteFailsRetrying(i, k) ==
    /\ panic = ""
    /\ k \in 1..Len(saves[i])
    /\ saves[i][k].pc = "created"
    /\ saves' = [saves EXCEPT ![i][k].pc = "start"]
    /\ lastTick' = NoTick
    /\ UNCHANGED <<probe, players, chunks, tasks, files, panic>>

(* a failed write after which the task removes the file it created *)
SaveWriteFailsRemoving(i, k) ==
    /\ panic = ""
    /\ k \in 1..Len(saves[i])
    /\ saves[i][k].pc = "created"
    /\ files' = [files EXCEPT ![i] = NoFile]
    /\ saves' = [saves EXCEPT ![i] = RemoveAt(@, k)]
    /\ lastTick' = NoTick
    /\ UNCHANGED <<probe, players, chunks, tasks, panic>>

(* the write fails: the error is logged and the task ends *)
SaveWriteFails(i, k) ==
    /\ panic = ""
    /\ k \in 1..Len(saves[i])
    /\ saves[i][k].pc = "created"
    /\ saves' = [saves EXCEPT ![i] = RemoveAt(@, k)]
    /\ lastTick' = NoTick
    /\ UNCHANGED <<probe, players, chunks, tasks, files, panic>>

(* ------------------------------------------------------------------ *)
(* Cell edits                                                           *)
(* ------------------------------------------------------------------ *)
(* handle_tile_click: the clicked tile entity becomes Dirt *)
HandleTileClick(i, c, t) ==
    /\ panic = ""
    /\ c \in 1..Len(chunks[i])
    /\ t \in 1..Len(chunks[i][c])
    /\ chunks[i][c][t].ground # Dirt
    /\ chunks' = [chunks EXCEPT ![i][c][t].ground = Dirt]
    /\ lastTick' = NoTick
    /\ UNCHANGED <<probe, players, tasks, saves, files, panic>>

(* TilePos::from_world_pos for TilemapType::Square with MAP_SIZE and       *)
(* GRID_SIZE: the world position itself, no tilemap transform, rounded to  *)
(* the nearest tile centre; None outside the 8 x 8 map                     *)
NoTilePos == <<>>
from_world_pos(v) ==
    LET x == (2 * v[1] + TILE_LENGTH) \div (2 * TILE_LENGTH)
        y == (2 * v[2] + TILE_LENGTH) \div (2 * TILE_LENGTH)
    IN  IF x \in 0..(TILES_PER_CHUNK - 1) /\ y \in 0..(TILES_PER_CHUNK - 1)
        THEN <<x, y>> ELSE NoTilePos

(* the first child of a Chunk whose TilePos is tp, 0 if there is none *)
TileOf(tiles, tp) ==
    IF \E k \in 1..Len(tiles) : tiles[k].tile_index = tp
    THEN CHOOSE k \in 1..Len(tiles) :
            tiles[k].tile_index = tp /\ \A j \in 1..(k - 1) : tiles[j].tile_index # tp
    ELSE 0

UnwrapNone == "called Option::unwrap() on a None value"

(* apply_action.map(Option::unwrap) for one ActionEvent with KeyCode::Space *)
(* of client p: tile_query walks the tile entities of every Chunk, in an   *)
(* order the ECS storage decides, and the first with the TilePos is taken  *)
ApplyAction(p) ==
    /\ panic = ""
    /\ players[p] # NoPlayer
    /\ LET tp == from_world_pos(players[p])
           found == {x \in Indices \X (1..MaxEntities) :
                       /\ x[2] <= Len(chunks[x[1]])
                       /\ TileOf(chunks[x[1]][x[2]], tp) # 0}
       IN  IF tp = NoTilePos \/ found = {}
           THEN panic' = UnwrapNone /\ chunks' = chunks
           ELSE /\ panic' = panic
                /\ \E x \in found :
                      chunks' = [chunks EXCEPT
                                   ![x[1]][x[2]][TileOf(chunks[x[1]][x[2]], tp)].ground = Dirt]
    /\ lastTick' = NoTick
    /\ UNCHANGED <<probe, players, tasks, saves, files>>

(* ------------------------------------------------------------------ *)
(* Specifications                                                       *)
(* ------------------------------------------------------------------ *)
Environment ==
    \/ \E p \in PlayerIds : \E pos \in Positions : ClientConnected(p, pos)
    \/ \E p \in PlayerIds : ClientDisconnected(p)
    \/ \E p \in PlayerIds : \E pos \in Positions : MovePlayer(p, pos)
    \/ \E x \in ClickTargets : \E c \in 1..MaxEntities : HandleTileClick(x[1], c, x[2])

Workers ==
    \/ \E i \in Indices : \E k \in 1..MaxEntities : LoadChunkTask(i, k)
    \/ \E i \in Indices : \E k \in 1..MaxEntities : SaveCreate(i, k)
    \/ \E i \in Indices : \E k \in 1..MaxEntities : SaveWrite(i, k)

(* The I/O failures of the file system *)
Failures ==
    \/ \E i \in Indices : \E k \in 1..MaxEntities : LoadChunkIoError(i, k)
    \/ \E i \in Indices : \E k \in 1..MaxEntities : SaveCreateFails(i, k)
    \/ \E i \in Indices : \E k \in 1..MaxEntities : SaveWriteFails(i, k)

(* ChunkPlugin: load_deload_chunks, the observers and task_poll *)
Next == Environment \/ Workers \/ Failures \/ TaskPoll \/ LoadDeloadChunks
Spec == Init /\ [][Next]_vars

(* WorldPlugin's manage_loaded_chunks with the same observers and poll *)
NextWorld ==
    \/ Environment \/ Workers \/ Failures \/ TaskPoll \/ ManageLoadedChunks
    \/ \E p \in PlayerIds : ApplyAction(p)
SpecWorld == Init /\ [][NextWorld]_vars

(* WorldPlugin with a single connected player, who moves and acts *)
InitSingle ==
    /\ probe = NoProbe
    /\ \E pos \in Positions : players = [p \in PlayerIds |-> IF p = 1 THEN pos ELSE NoPlayer]
    /\ chunks = [i \in Indices |-> <<>>]
    /\ tasks = [i \in Indices |-> <<>>]
    /\ saves = [i \in Indices |-> <<>>]
    /\ files \in [Indices -> UNION {InitialFiles(i) : i \in Indices}]
    /\ \A i \in Indices : files[i] \in InitialFiles(i)
    /\ panic = ""
    /\ lastTick = NoTick
NextWorldSingle ==
    \/ \E pos \in Positions : MovePlayer(1, pos)
    \/ \E x \in ClickTargets : \E c \in 1..MaxEntities : HandleTileClick(x[1], c, x[2])
    \/ ApplyAction(1)
    \/ Workers \/ Failures \/ TaskPoll \/ ManageLoadedChunks
SpecWorldSingle == InitSingle /\ [][NextWorldSingle]_vars

(* ChunkPlugin with a record, kept in probe, of what happens to the index *)
(* Watched: the ChunkData that the tick evicting its only Chunk handed to  *)
(* a save task ("evicted"), that save task having written its file while   *)
(* no player sees the index ("saved"), the tick that next spawns the index *)
(* ("loading" for a LoadChunk issued with no other load of the index       *)
(* pending, "generated" for a generation) and the result of that load task *)
(* ("loaded"). The save task of the last eviction is the last of its       *)
(* index, the load task the first. File operations do not fail in this     *)
(* specification.                                                          *)
Watched == <<0, 0>>

(* how many commands of the kind op the tick issued for Watched *)
Issued(log, op) ==
    Cardinality({k \in 1..Len(log) : log[k].op = op /\ log[k].index = Watched})

ObserveTick(w) ==
    IF Issued(w.log, "SaveChunk") = 1 /\ w.chunks[Watched] = <<>>
    THEN [NoProbe EXCEPT !.stage = "evicted",
                         !.data = w.saves[Watched][Len(w.saves[Watched])].data]
    ELSE IF Issued(w.log, "SaveChunk") >= 1 THEN NoProbe
    ELSE IF Issued(w.log, "LoadChunk") >= 1
    THEN (IF probe.stage = "saved" /\ Len(w.tasks[Watched]) = 1
          THEN [probe EXCEPT !.stage = "loading"]
          ELSE IF probe.stage = "loading" THEN probe ELSE NoProbe)
    ELSE IF Issued(w.log, "gen_chunk") >= 1
    THEN (IF probe.stage = "saved" THEN [probe EXCEPT !.stage = "generated"] ELSE NoProbe)
    ELSE probe

LoadDeloadChunksObserved ==
    /\ panic = ""
    /\ LET r == load_deload_chunks(PlayerList(players, 1), chunks, files)
           w == ApplyCommands(World, r.cmds)
       IN  /\ WithinBounds(w)
           /\ chunks' = w.chunks
           /\ tasks' = w.tasks
           /\ saves' = w.saves
           /\ panic' = w.panic
           /\ lastTick' = TickRecord(w)
           /\ probe' = ObserveTick(w)
    /\ UNCHANGED <<players, files>>

SaveWriteObserved(i, k) ==
    /\ panic = ""
    /\ k \in 1..Len(saves[i])
    /\ saves[i][k].pc = "created"
    /\ LET doc == ron_to_string(saves[i][k].data)
       IN  files' = [files EXCEPT ![i] = FileOf(WriteAt0(@.bytes, doc, Len(doc)))]
    /\ saves' = [saves EXCEPT ![i] = RemoveAt(@, k)]
    /\ lastTick' = NoTick
    /\ probe' = IF i = Watched /\ probe.stage = "evicted" /\ k = Len(saves[i])
                THEN (IF Watched \in SeqToSet(VisibleChunkIndices(PlayerList(players, 1)))
                      THEN NoProbe ELSE [probe EXCEPT !.stage = "saved"])
                ELSE probe
    /\ UNCHANGED <<players, chunks, tasks, panic>>

LoadChunkTaskObserved(i, k) ==
    /\ panic = ""
    /\ k \in 1..Len(tasks[i])
    /\ tasks[i][k].status = "running"
    /\ LET r == load_chunk(i, files, FALSE)
       IN  /\ tasks' = [tasks EXCEPT ![i][k] =
                           [status |-> IF r.ok THEN "ok" ELSE "err", data |-> r.data]]
           /\ probe' = IF i = Watched /\ probe.stage = "loading" /\ k = 1
                       THEN [probe EXCEPT !.stage = "loaded", !.decoded = r] ELSE probe
    /\ lastTick' = NoTick
    /\ UNCHANGED <<players, chunks, saves, files, panic>>

NextObserved ==
    \/ Environment
    \/ \E i \in Indices : \E k \in 1..MaxEntities : LoadChunkTaskObserved(i, k)
    \/ \E i \in Indices : \E k \in 1..MaxEntities : SaveCreate(i, k)
    \/ \E i \in Indices : \E k \in 1..MaxEntities : SaveWriteObserved(i, k)
    \/ TaskPoll
    \/ LoadDeloadChunksObserved
SpecObserved == Init /\ [][NextObserved]_vars

(* ChunkPlugin with one player connected from the start, who moves; the   *)
(* tick runs every frame, task_poll too, and the IoTaskPool runs every     *)
(* task it was given. The tick is capped on the tasks it leaves in flight, *)
(* which drain, never on the Chunk entities.                               *)
LoadDeloadChunksEveryFrame ==
    /\ panic = ""
    /\ LET r == load_deload_chunks(PlayerList(players, 1), chunks, files)
           w == ApplyCommands(World, r.cmds)
       IN  /\ TotalLen(w.tasks) <= MaxPendingLoads
           /\ TotalLen(w.saves) <= MaxSavesInFlight
           /\ chunks' = w.chunks
           /\ tasks' = w.tasks
           /\ saves' = w.saves
           /\ panic' = w.panic
           /\ lastTick' = TickRecord(w)
    /\ UNCHANGED <<probe, players, files>>

InitSettle ==
    /\ probe = NoProbe
    /\ \E pos \in Positions : players = [p \in PlayerIds |-> IF p = 1 THEN pos ELSE NoPlayer]
    /\ chunks = [i \in Indices |-> <<>>]
    /\ tasks = [i \in Indices |-> <<>>]
    /\ saves = [i \in Indices |-> <<>>]
    /\ files \in [Indices -> UNION {InitialFiles(i) : i \in Indices}]
    /\ \A i \in Indices : files[i] \in InitialFiles(i)
    /\ panic = ""
    /\ lastTick = NoTick
TaskSteps ==
    \/ \E i \in Indices : \E k \in 1..MaxSavesInFlight :
          \/ LoadChunkTask(i, k) \/ SaveCreate(i, k) \/ SaveWrite(i, k)
    \/ \E i \in Indices : \E k \in 1..MaxSavesInFlight :
          \/ LoadChunkIoError(i, k) \/ SaveCreateFails(i, k) \/ SaveWriteFails(i, k)
NextSettle ==
    \/ \E pos \in Positions : MovePlayer(1, pos)
    \/ TaskSteps \/ TaskPoll \/ LoadDeloadChunksEveryFrame
(* ENABLED <<LoadDeloadChunksEveryFrame>>_vars, computed: the tick fits    *)
(* the cap and changes some variable                                       *)
TickEnabled ==
    /\ panic = ""
    /\ LET r == load_deload_chunks(PlayerList(players, 1), chunks, files)
           w == ApplyCommands(World, r.cmds)
       IN  /\ TotalLen(w.tasks) <= MaxPendingLoads
           /\ TotalLen(w.saves) <= MaxSavesInFlight
           /\ <<w.chunks, w.tasks, w.saves, w.panic, TickRecord(w)>>
                 # <<chunks, tasks, saves, panic, lastTick>>
(* weak fairness of the tick, WF_vars(LoadDeloadChunksEveryFrame), spelled *)
(* out with TickEnabled                                                    *)
TickFairness ==
    []<>(~TickEnabled) \/ []<><<lastTick'.ran /\ LoadDeloadChunksEveryFrame>>_vars
SpecSettle ==
    /\ InitSettle /\ [][NextSettle]_vars
    /\ TickFairness
    /\ WF_vars(TaskPoll)
    /\ WF_vars(TaskSteps)

(* A save folder that holds, at the start, a file for <<0, 0>> that         *)
(* decodes to a ChunkData with an empty tile list                          *)
EmptyTilesBytes == ron_to_string([chunk_index |-> <<0, 0>>, tiles |-> <<>>])
InitStored ==
    /\ probe = NoProbe
    /\ players = [p \in PlayerIds |-> NoPlayer]
    /\ chunks = [i \in Indices |-> <<>>]
    /\ tasks = [i \in Indices |-> <<>>]
    /\ saves = [i \in Indices |-> <<>>]
    /\ files \in [Indices -> {NoFile, FileOf(EmptyTilesBytes)}]
    /\ \A i \in Indices : i \notin StoredIndices => files[i] = NoFile
    /\ panic = ""
    /\ lastTick = NoTick
SpecStored == InitStored /\ [][Next]_vars

(* ------------------------------------------------------------------ *)
(* The resolver and the codec applied on their own                      *)
(* ------------------------------------------------------------------ *)
GeomPositions == GeomCoords \X GeomCoords
IndexCoords == -6..6
GeomIndices == IndexCoords \X IndexCoords

(* A world without entities and a save folder without files *)
EmptyWorld == [chunks |-> [i \in GeomIndices |-> <<>>], tasks |-> [i \in GeomIndices |-> <<>>],
               saves |-> [i \in GeomIndices |-> <<>>], gone |-> [i \in GeomIndices |-> 0],
               panic |-> "", log |-> <<>>]
NoFiles == [i \in GeomIndices |-> NoFile]

(* ChunkData values handed to the codec *)
TileChoices == {[tile_index |-> ti, ground |-> g] : ti \in {<<0, 0>>, <<7, 3>>}, g \in Ground}
CodecInputs ==
    {[chunk_index |-> i, tiles |-> t] :
        i \in {<<0, 0>>, <<-1, 2>>},
        t \in UNION {[1..n -> TileChoices] : n \in 0..MaxCodecTiles}}
    \cup {gen_chunk(<<0, 0>>)}

(* Rectangles chunk_indices_inside is applied to on its own *)
RectCoords == {-700, -257, -256, -1, 0, 255, 256, 600}
RectInputs ==
    {r \in {[min |-> <<a, c>>, max |-> <<b, d>>] :
               a \in RectCoords, b \in RectCoords, c \in {-257, 0}, d \in {1, 256}} :
        r.min[1] < r.max[1]}

ProbeInputs ==
    {[NoProbe EXCEPT !.stage = "pos", !.pos = v] : v \in GeomPositions}
    \cup {[NoProbe EXCEPT !.stage = "data", !.data = d] : d \in CodecInputs}
    \cup {[NoProbe EXCEPT !.stage = "index", !.pos = i] : i \in GeomIndices}
    \cup {[NoProbe EXCEPT !.stage = "rect", !.rect = r] : r \in RectInputs}

InitPure ==
    /\ probe \in ProbeInputs
    /\ players = [p \in PlayerIds |-> NoPlayer]
    /\ chunks = [i \in Indices |-> <<>>]
    /\ tasks = [i \in Indices |-> <<>>]
    /\ saves = [i \in Indices |-> <<>>]
    /\ files = [i \in Indices |-> NoFile]
    /\ panic = ""
    /\ lastTick = NoTick

(* one tick of load_deload_chunks, with its commands applied, for a single *)
(* player at probe.pos in the empty world                                  *)
ProbeResolve ==
    /\ probe.stage = "pos"
    /\ LET r == load_deload_chunks(<<probe.pos>>, EmptyWorld.chunks, NoFiles)
           w == ApplyCommands(EmptyWorld, r.cmds)
       IN  probe' = [probe EXCEPT !.stage = "resolved",
                        !.resolved = {i \in GeomIndices : w.chunks[i] # <<>> \/ w.tasks[i] # <<>>}]
    /\ UNCHANGED <<players, chunks, tasks, saves, files, panic, lastTick>>

(* save_chunk's ron::to_string *)
ProbeEncode ==
    /\ probe.stage = "data"
    /\ probe' = [probe EXCEPT !.stage = "encoded", !.bytes = ron_to_string(probe.data)]
    /\ UNCHANGED <<players, chunks, tasks, saves, files, panic, lastTick>>

(* load_chunk's ron::de::from_bytes *)
ProbeDecode ==
    /\ probe.stage = "encoded"
    /\ probe' = [probe EXCEPT !.stage = "decoded", !.decoded = ron_from_bytes(probe.bytes)]
    /\ UNCHANGED <<players, chunks, tasks, saves, files, panic, lastTick>>

(* default generation for the index probe.pos: gen_chunk of chunk.rs, and  *)
(* the tiles spawn_chunk_stub of world.rs builds                           *)
ProbeGenerate ==
    /\ probe.stage = "index"
    /\ probe' = [probe EXCEPT !.stage = "generated",
                    !.data = gen_chunk(probe.pos),
                    !.decoded = [ok |-> TRUE, data |-> world_default_chunk(probe.pos)]]
    /\ UNCHANGED <<players, chunks, tasks, saves, files, panic, lastTick>>

(* chunk_indices_inside of probe.rect *)
ProbeInside ==
    /\ probe.stage = "rect"
    /\ probe' = [probe EXCEPT !.stage = "inside",
                    !.resolved = SeqToSet(chunk_indices_inside(probe.rect))]
    /\ UNCHANGED <<players, chunks, tasks, saves, files, panic, lastTick>>

NextPure == ProbeResolve \/ ProbeEncode \/ ProbeDecode \/ ProbeGenerate \/ ProbeInside
SpecPure == InitPure /\ [][NextPure]_vars

(* ------------------------------------------------------------------ *)
(* Properties                                                           *)
(* ------------------------------------------------------------------ *)
IsEvict(c) == c.op \in {"SaveChunk", "despawn"}
IsSpawn(c) == c.op \in {"LoadChunk", "gen_chunk", "world_stub"}
OpIndices(cmds, ops) == {cmds[k].index : k \in {j \in 1..Len(cmds) : cmds[j].op \in ops}}
CountOps(cmds, ops, i) ==
    Cardinality({k \in 1..Len(cmds) : cmds[k].op \in ops /\ cmds[k].index = i})
SpawnOps == {"LoadChunk", "gen_chunk", "world_stub"}

(* the desired set: the union of the players' view windows *)
Desired == SeqToSet(VisibleChunkIndices(PlayerList(players, 1)))

(* C1: for every chunk index at most one Chunk entity carries it, in every  *)
(* reachable state.                                                        *)
NoDuplicateResidency == \A i \in Indices : Len(chunks[i]) <= 1

(* C2: for every chunk index at most one ComputeTask (pending load) exists, *)
(* in every reachable state.                                               *)
AtMostOnePendingLoad == \A i \in Indices : Len(tasks[i]) <= 1

(* C3: a resolution tick that directly follows a resolution tick (no player *)
(* moved, no task ran and nothing was polled in between) issues no command *)
(* and leaves the Chunk entities as they are.                              *)
IdempotentResolution ==
    [][(lastTick.ran /\ lastTick'.ran) => (lastTick'.cmds = <<>> /\ chunks' = chunks)]_vars

(* C4: a resolution tick submits, for every index that is resident and not  *)
(* desired, exactly one save task, and its snapshot is the tile list of a  *)
(* Chunk entity of that index as it was before the tick despawned it.      *)
EvictionTriggersSave ==
    [][lastTick'.ran =>
          \A i \in Indices :
             (chunks[i] # <<>> /\ i \notin Desired) =>
                /\ Len(saves'[i]) = Len(saves[i]) + 1
                /\ \E c \in 1..Len(chunks[i]) :
                      saves'[i][Len(saves'[i])].data = [chunk_index |-> i, tiles |-> chunks[i][c]]
                /\ chunks'[i] = <<>>]_vars

(* the indices whose 256-unit footprint meets the square of half-size half  *)
(* centred at v                                                            *)
Intersecting(v, half) ==
    {i \in GeomIndices :
        \A axis \in 1..2 :
           /\ get_world_coords(i)[axis] <= v[axis] + half
           /\ get_world_coords(i)[axis] + get_size > v[axis] - half}

(* C5: for a single player at v, the indices resident or pending after the  *)
(* resolution tick are exactly those whose footprint meets the square of   *)
(* half-size ViewDistance * TILE_LENGTH centred at v.                      *)
Coverage ==
    probe.stage = "resolved" =>
        probe.resolved = Intersecting(probe.pos, ViewDistance * TILE_LENGTH)

(* C6: the view rectangle of a player at (0,0) has half-width 640 and the   *)
(* tick makes exactly the 36 indices -3..2 x -3..2 resident.               *)
ConcreteScenario ==
    (probe.stage = "resolved" /\ probe.pos = <<0, 0>>) =>
        /\ ViewBorder(probe.pos) = [min |-> <<-640, -640>>, max |-> <<640, 640>>]
        /\ probe.resolved = (-3..2) \X (-3..2)

(* C7: in the commands of a resolution tick every save and despawn comes    *)
(* before every load and generate, and no index is both evicted and        *)
(* spawned; for the tick that ran (load_deload_chunks) and for the         *)
(* commands manage_loaded_chunks issues in the same state.                 *)
OrderedAndDisjoint(cmds) ==
    /\ \A m, n \in 1..Len(cmds) : (IsSpawn(cmds[m]) /\ IsEvict(cmds[n])) => n < m
    /\ OpIndices(cmds, {"SaveChunk", "despawn"}) \cap OpIndices(cmds, SpawnOps) = {}
EvictBeforeSpawn ==
    /\ OrderedAndDisjoint(lastTick.cmds)
    /\ OrderedAndDisjoint(manage_loaded_chunks(PlayerList(players, 1), chunks, tasks, files).cmds)
EvictBeforeSpawnWitness ==
    /\ lastTick.ran
    /\ \E m, n \in 1..Len(lastTick.cmds) : IsEvict(lastTick.cmds[m]) /\ IsSpawn(lastTick.cmds[n])
    /\ chunks[<<0, 0>>] = <<>> /\ chunks[<<-1, 0>>] # <<>>

(* C8: a poll step that removes a failed load of index i leaves i neither   *)
(* resident nor pending; and a resolution tick that finds i desired,       *)
(* neither resident nor pending, issues one LoadChunk for i if its file    *)
(* exists and one generation if it does not.                               *)
LoadFailureRecovery ==
    [][\A i \in Indices :
          /\ ((\E k \in 1..Len(tasks[i]) : tasks[i][k].status = "err")
                /\ Len(tasks'[i]) < Len(tasks[i]))
             => (chunks'[i] = <<>> /\ tasks'[i] = <<>>)
          /\ (lastTick'.ran /\ i \in Desired /\ chunks[i] = <<>> /\ tasks[i] = <<>>)
             => IF files[i].exists
                THEN /\ CountOps(lastTick'.cmds, {"LoadChunk"}, i) = 1
                     /\ CountOps(lastTick'.cmds, {"gen_chunk", "world_stub"}, i) = 0
                ELSE /\ CountOps(lastTick'.cmds, {"LoadChunk"}, i) = 0
                     /\ CountOps(lastTick'.cmds, {"gen_chunk", "world_stub"}, i) = 1]_vars

(* C9: decoding the encoding of a ChunkData succeeds and gives the same     *)
(* chunk index and the same multiset of (tile index, ground) pairs; the    *)
(* encoding is a complete document.                                        *)
TileBag(t) == [x \in SeqToSet(t) |-> Cardinality({k \in 1..Len(t) : t[k] = x})]
DiffAlgorithm ==
    [][lastTick'.ran =>
          /\ OpIndices(lastTick'.cmds, {"despawn"}) = Resident(chunks) \ Desired
          /\ OpIndices(lastTick'.cmds, SpawnOps) = Desired \ (Resident(chunks) \cup Pending(tasks))
          /\ \A i \in Indices : CountOps(lastTick'.cmds, SpawnOps, i) <= 1]_vars

(* the players walked in the opposite order *)
Reverse(s) == [k \in 1..Len(s) |-> s[Len(s) + 1 - k]]
CmdBag(cmds) == [c \in SeqToSet(cmds) |-> Cardinality({k \in 1..Len(cmds) : cmds[k] = c})]
SameOutcome(a, b) ==
    /\ CmdBag(a.cmds) = CmdBag(b.cmds)
    /\ Resident(ApplyCommands(World, a.cmds).chunks) = Resident(ApplyCommands(World, b.cmds).chunks)
SameForBothOrders ==
    LET pl == PlayerList(players, 1)
    IN  /\ SameOutcome(load_deload_chunks(pl, chunks, files),
                       load_deload_chunks(Reverse(pl), chunks, files))
        /\ SameOutcome(manage_loaded_chunks(pl, chunks, tasks, files),
                       manage_loaded_chunks(Reverse(pl), chunks, tasks, files))
VisibleNeverEvicted ==
    LET pl == PlayerList(players, 1)
    IN  /\ OpIndices(load_deload_chunks(pl, chunks, files).cmds, {"despawn"}) \cap Desired = {}
        /\ OpIndices(manage_loaded_chunks(pl, chunks, tasks, files).cmds, {"despawn"})
              \cap Desired = {}

(* C11: in every reachable state, a resolution tick issues the same evict   *)
(* and load/generate commands and leaves the same resident set whichever   *)
(* way round the players are walked, and it evicts no Chunk of an index    *)
(* that some player sees.                                                  *)
OrderIndependence == SameForBothOrders /\ VisibleNeverEvicted

GenerateOps == {"gen_chunk", "world_stub"}
(* the commands for index i are loads if its file exists, generations if   *)
(* it does not, and there is at least one                                  *)
LoadOrGenerate(cmds, i) ==
    IF files[i].exists
    THEN CountOps(cmds, {"LoadChunk"}, i) >= 1 /\ CountOps(cmds, GenerateOps, i) = 0
    ELSE CountOps(cmds, {"LoadChunk"}, i) = 0 /\ CountOps(cmds, GenerateOps, i) >= 1
(* what applying them leaves: a new ComputeTask and no new Chunk, or a new *)
(* Chunk holding the default tiles and no new ComputeTask                  *)
PendingOrResident(ch, tk, i, default) ==
    IF files[i].exists
    THEN Len(tk[i]) > Len(tasks[i]) /\ ch[i] = chunks[i]
    ELSE /\ Len(ch[i]) > Len(chunks[i]) /\ tk[i] = tasks[i]
         /\ \A c \in (Len(chunks[i]) + 1)..Len(ch[i]) : ch[i][c] = default

(* C12: a resolution tick handles every index it spawns (every desired      *)
(* index without a Chunk entity among them) by LoadChunk alone when the    *)
(* save file exists, which leaves it pending with no Chunk spawned, and by *)
(* generation alone when it does not, which leaves it resident with no     *)
(* ComputeTask spawned; for the tick of load_deload_chunks and for the     *)
(* commands of manage_loaded_chunks.                                       *)
LoadVersusGenerate ==
    [][/\ lastTick'.ran =>
            \A i \in Indices :
               (i \in OpIndices(lastTick'.cmds, SpawnOps) \/ (i \in Desired /\ chunks[i] = <<>>))
               => /\ LoadOrGenerate(lastTick'.cmds, i)
                  /\ PendingOrResident(chunks', tasks', i, gen_chunk(i).tiles)
                  /\ (chunks[i] = <<>> /\ tasks[i] = <<>>)
                        => (i \in Resident(chunks')) # (i \in Pending(tasks'))
       /\ LET r == manage_loaded_chunks(PlayerList(players, 1), chunks, tasks, files)
              w == ApplyCommands(World, r.cmds)
          IN  \A i \in Indices :
                 (i \in OpIndices(r.cmds, SpawnOps)
                     \/ (i \in Desired /\ chunks[i] = <<>> /\ tasks[i] = <<>>))
                 => /\ LoadOrGenerate(r.cmds, i)
                    /\ PendingOrResident(w.chunks, w.tasks, i, world_default_chunk(i).tiles)]_vars
LoadVersusGenerateWitness ==
    /\ lastTick.ran
    /\ \E m, n \in 1..Len(lastTick.cmds) :
          /\ lastTick.cmds[m].op = "LoadChunk" /\ files[lastTick.cmds[m].index].exists
          /\ lastTick.cmds[n].op = "gen_chunk" /\ ~files[lastTick.cmds[n].index].exists
    /\ chunks[<<0, 0>>] = <<>> /\ Len(tasks[<<0, 0>>]) = 1
    /\ Len(chunks[<<-1, 0>>]) = 1 /\ tasks[<<-1, 0>>] = <<>>

(* C13: a step of a load_chunk or save_chunk task, failing or not, leaves   *)
(* the Chunk entities with their tiles, the number of ComputeTask entities *)
(* of every index, the players and the panic state as they are; it        *)
(* changes only the task's own result, the save tasks and the files: a    *)
(* step that changes any of the former is no step of such a task.          *)
SingleWriter ==
    [][\/ /\ chunks' = chunks
          /\ \A i \in Indices : Len(tasks'[i]) = Len(tasks[i])
          /\ players' = players
          /\ panic' = panic
       \/ ~(Workers \/ Failures)]_vars
SingleWriterWitness ==
    /\ \E k \in 1..Len(tasks[<<0, 0>>]) : tasks[<<0, 0>>][k].status = "ok"
    /\ chunks[<<0, 0>>] = <<>>
    /\ \E i \in Indices : \E k \in 1..Len(saves[i]) : saves[i][k].pc = "created"

(* C14: no reachable state has panicked, neither on "Chunk to save does    *)
(* not exist!" nor on "Couldn't find chunk in allowed indices!", and       *)
(* manage_loaded_chunks would not panic in it either; with a save folder   *)
(* that may hold a file decoding to an empty tile list.                    *)
NoFatalFailure ==
    /\ panic = ""
    /\ LET r == manage_loaded_chunks(PlayerList(players, 1), chunks, tasks, files)
       IN  r.panic = "" /\ ApplyCommands(World, r.cmds).panic = ""

(* tile t of index i was Dirt when a Chunk of i was evicted: a save task of *)
(* i carries it, or the file of i decodes to it                            *)
SnapshotHasDirt(i, t) ==
    \/ \E k \in 1..Len(saves[i]) :
          Len(saves[i][k].data.tiles) >= t /\ saves[i][k].data.tiles[t].ground = Dirt
    \/ /\ files[i].exists
       /\ LET d == ron_from_bytes(files[i].bytes)
          IN  d.ok /\ Len(d.data.tiles) >= t /\ d.data.tiles[t].ground = Dirt

(* C15: when a tile of index i was edited to Dirt and i was evicted with    *)
(* that edit (its save is in flight or written), every Chunk entity of i   *)
(* that is resident has Dirt on that tile.                                 *)
NoLostEdits ==
    \A x \in ClickTargets :
       SnapshotHasDirt(x[1], x[2]) =>
          \A c \in 1..Len(chunks[x[1]]) :
             Len(chunks[x[1]][c]) >= x[2] => chunks[x[1]][c][x[2]].ground = Dirt

IsReady(t) == t.status = "ok"
DecodedTiles(ready) == [k \in 1..Len(ready) |-> ready[k].data.tiles]
(* a poll step spawns one Chunk per finished load with the decoded tiles,  *)
(* removes every finished task and keeps every running one                 *)
PollMaterializes ==
    [][TaskPoll =>
          \A i \in Indices :
             /\ chunks'[i] = chunks[i] \o DecodedTiles(SelectSeq(tasks[i], IsReady))
             /\ tasks'[i] = SelectSeq(tasks[i], IsRunning)]_vars

(* C16: a poll step spawns, for every load that finished with decoded data, *)
(* one Chunk with exactly the decoded tiles and removes the ComputeTask in *)
(* the same step, after which the index is resident and not pending; a     *)
(* load still running stays and nothing is spawned for it.                 *)
ApplyOnReady ==
    [][TaskPoll =>
          \A i \in Indices :
             /\ chunks'[i] = chunks[i] \o DecodedTiles(SelectSeq(tasks[i], IsReady))
             /\ tasks'[i] = SelectSeq(tasks[i], IsRunning)
             /\ SelectSeq(tasks[i], IsReady) # <<>>
                   => (i \in Resident(chunks') /\ i \notin Pending(tasks'))]_vars

SaveFails == \E i \in Indices : \E k \in 1..MaxEntities : SaveCreateFails(i, k) \/ SaveWriteFails(i, k)

(* C20: a failing save_chunk task ends without changing the Chunk entities, *)
(* the ComputeTask entities, the players or the files, and no save task    *)
(* takes its place; save tasks come into being only in a resolution tick,  *)
(* one per SaveChunk it triggers.                                          *)
LossySave ==
    [][/\ SaveFails =>
            /\ chunks' = chunks /\ tasks' = tasks /\ players' = players
            /\ files' = files /\ panic' = panic
            /\ TotalLen(saves') = TotalLen(saves) - 1
            /\ \A i \in Indices : Len(saves'[i]) <= Len(saves[i])
       /\ \A i \in Indices :
             IF lastTick'.ran
             THEN Len(saves'[i]) = Len(saves[i]) + CountOps(lastTick'.cmds, {"SaveChunk"}, i)
             ELSE Len(saves'[i]) <= Len(saves[i])]_vars
LossySaveWitness ==
    /\ files[<<0, 0>>] = FileOf(<<>>)
    /\ \A i \in Indices : saves[i] = <<>>
    /\ chunks[<<0, 0>>] = <<>>
    /\ ~lastTick.ran

(* C21: for every index at most one save task is in flight, and while one  *)
(* is in flight no load task of that index is running.                     *)
PerKeyStoreAccess ==
    \A i \in Indices :
       /\ Len(saves[i]) <= 1
       /\ saves[i] # <<>> => \A k \in 1..Len(tasks[i]) : ~IsRunning(tasks[i][k])

(* the content of a file that decodes *)
Decodes(f) == f.exists /\ ron_from_bytes(f.bytes).ok

(* C22: a file that decodes keeps its content until a save task has written *)
(* its whole document over it: no step of a save, started, failed or       *)
(* unfinished, leaves the file of an index with anything but the last      *)
(* version written or the next one.                                        *)
RevertsToLastGoodVersion ==
    [][\A i \in Indices :
          Decodes(files[i]) =>
             \/ files'[i] = files[i]
             \/ \E k \in 1..Len(saves[i]) :
                   files'[i] = FileOf(ron_to_string(saves[i][k].data))]_vars

(* C30: a file that exists is never removed, a save task past File::create *)
(* has its file, and a resolution tick issues no default generation for an *)
(* index whose file exists: every command that takes it out of the         *)
(* unloaded state is a LoadChunk.                                          *)
NeverRegenerated ==
    [][\A i \in Indices :
          /\ files[i].exists => files'[i].exists
          /\ \A k \in 1..Len(saves[i]) : saves[i][k].pc = "created" => files[i].exists
          /\ (files[i].exists /\ lastTick'.ran) =>
                /\ CountOps(lastTick'.cmds, GenerateOps, i) = 0
                /\ Len(chunks'[i]) <= Len(chunks[i])
                /\ i \in Desired /\ chunks[i] = <<>> =>
                      CountOps(lastTick'.cmds, {"LoadChunk"}, i) >= 1]_vars

(* a tick has issued a LoadChunk for an index whose file a save task wrote *)
NeverRegeneratedWitness ==
    /\ lastTick.ran
    /\ Decodes(files[<<-1, 0>>])
    /\ CountOps(lastTick.cmds, {"LoadChunk"}, <<-1, 0>>) >= 1

(* C23: default generation for index i gives ChunkData with chunk_index i   *)
(* and 64 tiles, exactly one for every (x, y) with 0 <= x, y < 8, all       *)
(* Grass, and world.rs builds the same tiles for the same index.            *)
DefaultGeneration ==
    probe.stage = "generated" =>
       LET d == probe.data
           at(x, y) == {k \in 1..Len(d.tiles) : d.tiles[k].tile_index = <<x, y>>}
       IN  /\ d.chunk_index = probe.pos
           /\ Len(d.tiles) = 64
           /\ \A x, y \in 0..7 : Cardinality(at(x, y)) = 1
           /\ \A k \in 1..Len(d.tiles) : d.tiles[k].ground = Grass
           /\ probe.decoded.data = d

(* default content was generated for an index with a negative coordinate *)
DefaultGenerationWitness ==
    /\ probe.stage = "generated"
    /\ probe.pos = <<-3, 2>>
    /\ Len(probe.data.tiles) = 64

(* the index whose footprint [256 i, 256 (i + 1)) contains v on both axes *)
OwnIndex(v) == <<v[1] \div get_size, v[2] \div get_size>>

(* C28: for a single player at v, of either sign on either axis, the index  *)
(* whose footprint contains v is resident or pending after the resolution  *)
(* tick.                                                                    *)
OwnPartitionDesired ==
    probe.stage = "resolved" =>
       /\ get_world_coords(OwnIndex(probe.pos))[1] <= probe.pos[1]
       /\ get_world_coords(OwnIndex(probe.pos))[2] <= probe.pos[2]
       /\ OwnIndex(probe.pos) \in SeqToSet(chunk_indices_inside(ViewBorder(probe.pos)))
       /\ OwnIndex(probe.pos) \in probe.resolved

(* the tick ran for a player left of and below the origin *)
OwnPartitionDesiredWitness ==
    /\ probe.stage = "resolved"
    /\ probe.pos = <<-1, -700>>
    /\ <<-1, -3>> \in probe.resolved

(* the footprint of index i meets the rectangle r on both axes *)
Overlaps(i, r) ==
    \A axis \in 1..2 :
       /\ get_world_coords(i)[axis] <= r.max[axis]
       /\ get_world_coords(i)[axis] + get_size > r.min[axis]

(* C29: every index chunk_indices_inside returns for a rectangle has a      *)
(* footprint that overlaps the rectangle, and every index resident or      *)
(* pending after the tick of a single player overlaps that player's view   *)
(* rectangle.                                                               *)
NoPartitionOutsideWindow ==
    /\ probe.stage = "inside" => \A i \in probe.resolved : Overlaps(i, probe.rect)
    /\ probe.stage = "resolved" =>
          \A i \in probe.resolved : Overlaps(i, ViewBorder(probe.pos))

(* chunk_indices_inside returned indices on both sides of the origin *)
NoPartitionOutsideWindowWitness ==
    /\ probe.stage = "inside"
    /\ probe.rect = [min |-> <<-257, -257>>, max |-> <<256, 1>>]
    /\ <<-1, -1>> \in probe.resolved
    /\ <<0, -1>> \in probe.resolved

(* the tile of a Chunk of the player's own index that contains position v *)
OwnTile(v) ==
    <<(v[1] - get_world_coords(OwnIndex(v))[1]) \div TILE_LENGTH,
      (v[2] - get_world_coords(OwnIndex(v))[2]) \div TILE_LENGTH>>

(* C24: a Space action of a player standing in a resident chunk does not    *)
(* panic, sets the tile of that chunk under the player to Dirt in one       *)
(* Chunk entity of that index, and leaves every other chunk as it was.      *)
EditTargetsOwningCell ==
    [][\A p \in PlayerIds :
          (ApplyAction(p) /\ chunks[OwnIndex(players[p])] # <<>>) =>
             LET own == OwnIndex(players[p])
             IN  /\ panic' = ""
                 /\ \A i \in Indices \ {own} : chunks'[i] = chunks[i]
                 /\ \E c \in 1..Len(chunks[own]) :
                       LET t == TileOf(chunks[own][c], OwnTile(players[p]))
                       IN  /\ t # 0
                           /\ chunks'[own] = [chunks[own] EXCEPT ![c][t].ground = Dirt]]_vars

Converged ==
    /\ Pending(tasks) = {}
    /\ Resident(chunks) = Desired
    /\ load_deload_chunks(PlayerList(players, 1), chunks, files).cmds = <<>>

LoadFailed == \E i \in Indices : \E k \in 1..Len(tasks[i]) : tasks[i][k].status = "err"

ReloadAfterCompletedSave ==
    /\ probe.stage # "generated"
    /\ probe.stage = "loaded" =>
          /\ probe.decoded.ok
          /\ probe.decoded.data.chunk_index = probe.data.chunk_index
          /\ TileBag(probe.decoded.data.tiles) = TileBag(probe.data.tiles)

(* C31: a resolution tick that finds no player leaves no Chunk entity,       *)
(* submits one save task per Chunk entity it found, issues no LoadChunk    *)
(* and no generation and leaves the ComputeTask entities alone, and        *)
(* manage_loaded_chunks issues the same commands; a poll step without      *)
(* players spawns the Chunk of every load that finished with data, which   *)
(* the next such tick evicts like any other.                               *)
NoViewers ==
    [][PlayerList(players, 1) = <<>> =>
          /\ lastTick'.ran =>
                /\ panic' = ""
                /\ OpIndices(lastTick'.cmds, SpawnOps) = {}
                /\ \A i \in Indices :
                      /\ chunks'[i] = <<>>
                      /\ tasks'[i] = tasks[i]
                      /\ Len(saves'[i]) = Len(saves[i]) + Len(chunks[i])
                      /\ CountOps(lastTick'.cmds, {"SaveChunk"}, i) = Len(chunks[i])
                /\ manage_loaded_chunks(<<>>, chunks, tasks, files).cmds
                      = load_deload_chunks(<<>>, chunks, files).cmds
          /\ TaskPoll =>
                \A i \in Indices :
                   chunks'[i] = chunks[i] \o DecodedTiles(SelectSeq(tasks[i], IsReady))]_vars

(* C32: after every step, every save task of index i carries chunk_index i, *)
(* the file of i, when the step wrote it and it decodes, holds chunk_index *)
(* i, every finished load of i returned chunk_index i, and a poll step     *)
(* (the one that removes ComputeTask entities) spawns the Chunk of every   *)
(* finished load of i under index i and under no other.                    *)
KeyMatchesContent ==
    [][/\ \A i \in Indices :
             /\ \A k \in 1..Len(saves'[i]) : saves'[i][k].data.chunk_index = i
             /\ \A k \in 1..Len(tasks'[i]) :
                   IsReady(tasks'[i][k]) => tasks'[i][k].data.chunk_index = i
             /\ (files'[i] # files[i] /\ Decodes(files'[i])) =>
                   ron_from_bytes(files'[i].bytes).data.chunk_index = i
       /\ (\E j \in Indices : Len(tasks'[j]) < Len(tasks[j])) =>
             \A i \in Indices :
                Len(chunks'[i]) = Len(chunks[i]) + Len(SelectSeq(tasks[i], IsReady))]_vars

(* a load task of <<-1, 0>> has decoded the file a save task wrote *)
KeyMatchesContentWitness ==
    \E k \in 1..Len(tasks[<<-1, 0>>]) :
       /\ IsReady(tasks[<<-1, 0>>][k])
       /\ tasks[<<-1, 0>>][k].data.chunk_index = <<-1, 0>>
       /\ Len(tasks[<<-1, 0>>][k].data.tiles) = 64

====
